---- MODULE Spec2Model ----
(***************************************************************************)
(* Model of the ConCoin client (src/program/src/main.rs): a terminal       *)
(* session that edits one line of UTF-8 text, hashes each submitted line   *)
(* with a fresh 32-byte pepper (SHA-512), keeps the digests and the        *)
(* (pepper, plaintext) records in two vectors, and exports the records to  *)
(* secrets.json on demand.                                                 *)
(*                                                                         *)
(* A String is modelled as its UTF-8 byte sequence; a char is its code     *)
(* point.  One step of the model is one iteration of the loop of App::run. *)
(***************************************************************************)
EXTENDS Integers, Sequences, FiniteSets, TLC

\* Number of events the session reads before the model stops following it.
MaxKeys == 5

\* Number of distinct values the random source can deliver in the model.
NumPeppers == 2

\* let mut pepper_bytes = [0u8; 32];
PepperLen == 32

VARIABLES
    input,              \* App.input: the UTF-8 bytes of the input box
    character_index,    \* App.character_index
    input_mode,         \* App.input_mode: "Normal" or "Editing"
    hash,               \* App.hash: Vec<String>
    secrets,            \* App.secrets: Vec<Vec<String>>
    show_saved_popup,   \* App.show_saved_popup
    saved_popup_info,   \* App.saved_popup_info
    saved_popup_result, \* App.saved_popup_result
    file,               \* contents of secrets.json in the working directory
    io_results,         \* the io::Result of each save_data_to_json call so far
    status,             \* "running", "exited" (Ok(())), "failed" (Err), "panicked"
    last,               \* the event the latest loop iteration read
    nkeys               \* number of events read so far

app == <<input, character_index, input_mode, hash, secrets,
         show_saved_popup, saved_popup_info, saved_popup_result>>

vars == <<input, character_index, input_mode, hash, secrets,
          show_saved_popup, saved_popup_info, saved_popup_result,
          file, io_results, status, last, nkeys>>

(***************************************************************************)
(* The terminal's events (crossterm::event).                               *)
(***************************************************************************)

\* Code points of the characters the keyboard delivers: e q s x (the four
\* Normal-mode commands) and U+20AC, the euro sign (three bytes in UTF-8).
KeyChars == {101, 113, 115, 120, 8364}

Char(c) == [k |-> "Char", c |-> c]
Key(k) == [k |-> k, c |-> 0]

KeyCodes == {Char(c) : c \in KeyChars}
            \cup {Key(k) : k \in {"Enter", "Backspace", "Left", "Right", "Esc", "Tab"}}

KeyEventKinds == {"Press", "Repeat", "Release"}

NoEvent == [type |-> "none", code |-> Key("none"), kind |-> "Press", mode |-> "Normal"]

KeyEvent(code, kind) == [type |-> "key", code |-> code, kind |-> kind, mode |-> input_mode]

(***************************************************************************)
(* UTF-8 strings (std::string::String, core::str).                         *)
(***************************************************************************)

\* char::encode_utf8
EncodeUtf8(c) ==
    IF c < 128 THEN <<c>>
    ELSE IF c < 2048 THEN <<192 + (c \div 64), 128 + (c % 64)>>
    ELSE IF c < 65536 THEN <<224 + (c \div 4096), 128 + ((c \div 64) % 64), 128 + (c % 64)>>
    ELSE <<240 + (c \div 262144), 128 + ((c \div 4096) % 64),
           128 + ((c \div 64) % 64), 128 + (c % 64)>>

\* a byte that continues a character (0b10xxxxxx)
IsContinuationByte(b) == b >= 128 /\ b < 192

\* str::is_char_boundary
IsCharBoundary(s, index) ==
    \/ index = 0
    \/ index = Len(s)
    \/ index < Len(s) /\ ~IsContinuationByte(s[index + 1])

\* str::char_indices().map(|(i, _)| i): the byte offsets where characters start
CharIndices(s) ==
    SelectSeq([i \in 1..Len(s) |-> i - 1], LAMBDA o : ~IsContinuationByte(s[o + 1]))

\* decoding of one character from its bytes
DecodeUtf8(b) ==
    IF Len(b) = 1 THEN b[1]
    ELSE IF Len(b) = 2 THEN (b[1] - 192) * 64 + (b[2] - 128)
    ELSE IF Len(b) = 3 THEN (b[1] - 224) * 4096 + (b[2] - 128) * 64 + (b[3] - 128)
    ELSE (b[1] - 240) * 262144 + (b[2] - 128) * 4096 + (b[3] - 128) * 64 + (b[4] - 128)

\* the number of bytes of the character whose first byte is b
Utf8Width(b) == IF b < 128 THEN 1 ELSE IF b < 224 THEN 2 ELSE IF b < 240 THEN 3 ELSE 4

\* the code points of the characters of s from byte i (1-based) on, as the
\* iterator of str::chars() yields them
RECURSIVE CharsFrom(_, _)
CharsFrom(s, i) ==
    IF i > Len(s) THEN <<>>
    ELSE LET w == Utf8Width(s[i])
         IN  <<DecodeUtf8(SubSeq(s, i, i + w - 1))>> \o CharsFrom(s, i + w)

\* str::chars()
Chars(s) == CharsFrom(s, 1)

\* Iterator::collect::<String>() over chars
RECURSIVE Collect(_)
Collect(cs) ==
    IF cs = <<>> THEN <<>> ELSE EncodeUtf8(Head(cs)) \o Collect(Tail(cs))

\* Iterator::take / Iterator::skip
Take(cs, n) == SubSeq(cs, 1, IF n < Len(cs) THEN n ELSE Len(cs))
Skip(cs, n) == SubSeq(cs, n + 1, Len(cs))

\* String::insert(idx, ch), defined when idx is a char boundary (it panics otherwise)
StringInsert(s, idx, ch) ==
    SubSeq(s, 1, idx) \o EncodeUtf8(ch) \o SubSeq(s, idx + 1, Len(s))

\* usize::saturating_sub
SaturatingSub(a, b) == IF a < b THEN 0 ELSE a - b

\* usize::saturating_add; the cursor is far below usize::MAX, where it saturates
SaturatingAdd(a, b) == a + b

\* Ord::clamp
Clamp(v, lo, hi) == IF v < lo THEN lo ELSE IF v > hi THEN hi ELSE v

(***************************************************************************)
(* The text editor of App.  Each operator takes the input and the cursor   *)
(* it works on and returns what the method leaves in them.                 *)
(***************************************************************************)

\* clamp_cursor without the clamp
clamp_cursor_unclamped(s, new_cursor_pos) == new_cursor_pos

\* App::clamp_cursor
clamp_cursor(s, new_cursor_pos) == Clamp(new_cursor_pos, 0, Len(Chars(s)))

\* App::move_cursor_left
move_cursor_left(s, ci) == clamp_cursor(s, SaturatingSub(ci, 1))

\* a move to the right that is not clamped to the character count
move_cursor_right_unclamped(s, ci) == SaturatingAdd(ci, 1)

\* App::move_cursor_right
move_cursor_right(s, ci) == clamp_cursor(s, SaturatingAdd(ci, 1))

\* a byte_index that takes the character index for a byte offset
byte_index_as_bytes(s, ci) == IF ci < Len(s) THEN ci ELSE Len(s)

\* App::byte_index
byte_index(s, ci) ==
    LET starts == CharIndices(s)
    IN  IF ci < Len(starts) THEN starts[ci + 1] ELSE Len(s)

\* App::enter_char; panicked when String::insert is handed an offset that is
\* not a char boundary
enter_char(s, ci, new_char) ==
    LET index == byte_index(s, ci)
    IN  IF IsCharBoundary(s, index) /\ index <= Len(s)
        THEN LET t == StringInsert(s, index, new_char)
             IN  [input |-> t, character_index |-> move_cursor_right(t, ci), panicked |-> FALSE]
        ELSE [input |-> s, character_index |-> ci, panicked |-> TRUE]

\* delete_char that drops the character under the cursor instead of the one
\* before it
delete_char_at_cursor(s, ci) ==
    IF ci # 0
    THEN LET t == Collect(Take(Chars(s), ci) \o Skip(Chars(s), ci + 1))
         IN  [input |-> t, character_index |-> move_cursor_left(t, ci)]
    ELSE [input |-> s, character_index |-> ci]

\* App::delete_char
delete_char(s, ci) ==
    IF ci # 0
    THEN LET current_index == ci
             from_left_to_current_index == current_index - 1
             before_char_to_delete == Take(Chars(s), from_left_to_current_index)
             after_char_to_delete == Skip(Chars(s), current_index)
             t == Collect(before_char_to_delete \o after_char_to_delete)
         IN  [input |-> t, character_index |-> move_cursor_left(t, ci)]
    ELSE [input |-> s, character_index |-> ci]

\* reset_cursor that leaves the cursor where it is
reset_cursor_stale == character_index

\* App::reset_cursor
reset_cursor == 0

\* String::clear
StringClear(s) == <<>>

(***************************************************************************)
(* Hashing and hex encoding (sha2::Sha512, hex::encode, OsRng).            *)
(***************************************************************************)

HexDigits == <<"0", "1", "2", "3", "4", "5", "6", "7",
               "8", "9", "a", "b", "c", "d", "e", "f">>

\* hex::encode: two lowercase digits per byte, high nibble first
HexEncode(b) ==
    [i \in 1..(2 * Len(b)) |->
        IF i % 2 = 1 THEN HexDigits[(b[(i + 1) \div 2] \div 16) + 1]
                     ELSE HexDigits[(b[i \div 2] % 16) + 1]]

\* Sha512::new / update / finalize, as an ideal hash: the hasher holds the
\* bytes it has absorbed, and the digest is a value that determines them.
Sha512New == <<>>
Sha512Update(hasher, data) == hasher \o data
Sha512Finalize(hasher) == [sha512 |-> hasher]

\* the values OsRng::try_fill_bytes can leave in pepper_bytes
PepperByte(p) == (p * 171 + 16) % 256
Peppers == {[i \in 1..PepperLen |-> PepperByte(p)] : p \in 0..(NumPeppers - 1)}

\* a digest of the input alone, the pepper left out
hash_input_without_pepper(inp, pepper) ==
    [hex |-> Sha512Finalize(Sha512Update(Sha512New, inp))]

\* hash_input_with_pepper with the two updates in the other order
hash_input_then_pepper(inp, pepper) ==
    [hex |-> Sha512Finalize(Sha512Update(Sha512Update(Sha512New, inp), pepper))]

\* hash_input_with_pepper; hex::encode of the digest is the hex field
hash_input_with_pepper(inp, pepper) ==
    LET hasher1 == Sha512Update(Sha512New, pepper)
        hasher2 == Sha512Update(hasher1, inp)
    IN  [hex |-> Sha512Finalize(hasher2)]

\* a push at the front of the vector
VecPushFront(v, x) == <<x>> \o v

\* Vec::push
VecPush(v, x) == Append(v, x)

\* combined_pepper_input of submit_input: hex(pepper) "," hex(input)
combined_pepper_input(inp, pepper) == (HexEncode(pepper) \o <<",">>) \o HexEncode(inp)

(***************************************************************************)
(* Export (serde_json::to_string_pretty, std::fs::write).                  *)
(***************************************************************************)

\* a JSON string of characters that need no escape (hex digits and a comma)
JsonString(str) == (<<"\"">> \o str) \o <<"\"">>

Indent(n) == [i \in 1..n |-> " "]

\* the pretty form of one Vec<String>, opened at indentation 2
RECURSIVE JsonStrings(_)
JsonStrings(v) ==
    IF v = <<>> THEN <<>>
    ELSE (<<"\n">> \o Indent(4) \o JsonString(Head(v)))
         \o (IF Tail(v) = <<>> THEN <<>> ELSE <<",">>) \o JsonStrings(Tail(v))

JsonInner(v) ==
    IF v = <<>> THEN <<"[", "]">>
    ELSE (<<"[">> \o JsonStrings(v)) \o (<<"\n">> \o Indent(2) \o <<"]">>)

RECURSIVE JsonRows(_)
JsonRows(data) ==
    IF data = <<>> THEN <<>>
    ELSE (<<"\n">> \o Indent(2) \o JsonInner(Head(data)))
         \o (IF Tail(data) = <<>> THEN <<>> ELSE <<",">>) \o JsonRows(Tail(data))

\* serde_json::to_string_pretty(&data) for data: Vec<Vec<String>>
ToStringPretty(data) ==
    IF data = <<>> THEN <<"[", "]">>
    ELSE (<<"[">> \o JsonRows(data)) \o <<"\n", "]">>

NoFile == [exists |-> FALSE, text |-> <<>>]
FileWith(text) == [exists |-> TRUE, text |-> text]

\* what a write_all that fails leaves of the text in the truncated file
PartialWrites(text) == {SubSeq(text, 1, Len(text) \div 2)}

\* a save that opens the file for appending instead of truncating it
save_data_to_json_appends(data, old) ==
    LET json_string == ToStringPretty(data)
    IN  {[ok |-> TRUE, err |-> "", file |-> FileWith(old.text \o json_string)]}
        \cup {[ok |-> FALSE, err |-> "PermissionDenied", file |-> old]}
        \cup {[ok |-> FALSE, err |-> "StorageFull", file |-> FileWith(old.text \o t)] :
                 t \in PartialWrites(json_string)}

\* App::save_data_to_json: the results it can return with the file each leaves;
\* it fails when File::create is refused (the old file stays) or when
\* write_all is cut short (the file is truncated and partly written)
save_data_to_json(data, old) ==
    LET json_string == ToStringPretty(data)
    IN  {[ok |-> TRUE, err |-> "", file |-> FileWith(json_string)]}
        \cup {[ok |-> FALSE, err |-> "PermissionDenied", file |-> old]}
        \cup {[ok |-> FALSE, err |-> "StorageFull", file |-> FileWith(t)] :
                 t \in PartialWrites(json_string)}

(***************************************************************************)
(* The session: App::new and the loop of App::run.                         *)
(***************************************************************************)

\* App::new with Editing as the mode it starts in
InitEditing ==
    /\ input = <<>>
    /\ input_mode = "Editing"
    /\ hash = <<>>
    /\ secrets = <<>>
    /\ character_index = 0
    /\ show_saved_popup = FALSE
    /\ saved_popup_info = <<>>
    /\ saved_popup_result = <<>>
    /\ file = NoFile
    /\ io_results = <<>>
    /\ status = "running"
    /\ last = NoEvent
    /\ nkeys = 0

\* App::new, before the first event
Init ==
    /\ input = <<>>
    /\ input_mode = "Normal"
    /\ hash = <<>>
    /\ secrets = <<>>
    /\ character_index = 0
    /\ show_saved_popup = FALSE
    /\ saved_popup_info = <<>>
    /\ saved_popup_result = <<>>
    /\ file = NoFile
    /\ io_results = <<>>
    /\ status = "running"
    /\ last = NoEvent
    /\ nkeys = 0

\* event::read() hands the loop the event ev
Read(ev) ==
    /\ status = "running"
    /\ nkeys < MaxKeys
    /\ last' = ev
    /\ nkeys' = nkeys + 1

\* a submit_input that also writes the ledger to the file
submit_input_autosaves(pepper) ==
    LET hashed_input == hash_input_with_pepper(input, pepper)
    IN  /\ hash' = VecPush(hash, hashed_input)
        /\ secrets' = VecPush(secrets, <<combined_pepper_input(input, pepper)>>)
        /\ input' = StringClear(input)
        /\ character_index' = reset_cursor
        /\ file' = FileWith(ToStringPretty(secrets'))
        /\ UNCHANGED <<input_mode, show_saved_popup, saved_popup_info,
                       saved_popup_result, io_results, status>>

\* App::submit_input with the random source delivering pepper
submit_input(pepper) ==
    LET hashed_input == hash_input_with_pepper(input, pepper)
    IN  /\ hash' = VecPush(hash, hashed_input)
        /\ secrets' = VecPush(secrets, <<combined_pepper_input(input, pepper)>>)
        /\ input' = StringClear(input)
        /\ character_index' = reset_cursor
        /\ UNCHANGED <<input_mode, show_saved_popup, saved_popup_info,
                       saved_popup_result, file, io_results, status>>

\* a submit_input that clears the buffer before it draws the pepper
submit_input_panic_after_clear ==
    /\ status' = "panicked"
    /\ input' = StringClear(input)
    /\ character_index' = reset_cursor
    /\ UNCHANGED <<input_mode, hash, secrets, show_saved_popup, saved_popup_info,
                   saved_popup_result, file, io_results>>

\* App::submit_input when try_fill_bytes fails: expect() panics in
\* generate_secure_pepper, before anything is pushed
submit_input_panic ==
    /\ status' = "panicked"
    /\ UNCHANGED <<app, file, io_results>>

\* handle_save that moves the ledger out (mem::take) instead of cloning it
handle_save_drains ==
    \E r \in save_data_to_json(secrets, file) :
        /\ file' = r.file
        /\ io_results' = Append(io_results, IF r.ok THEN "Ok" ELSE r.err)
        /\ secrets' = <<>>
        /\ saved_popup_info' = IF r.ok THEN <<"Data successfully saved to ", "\"secrets.json\"",
                                              ". Press x to close.">>
                                ELSE <<"Error saving file: ", r.err, ". Press x to close">>
        /\ saved_popup_result' = IF r.ok THEN <<"Success">> ELSE <<"Failure">>
        /\ show_saved_popup' = TRUE
        /\ UNCHANGED <<input, character_index, input_mode, hash, status>>

\* handle_save that hands the error on (the ? operator) instead of matching it
handle_save_propagates ==
    \E r \in save_data_to_json(secrets, file) :
        /\ file' = r.file
        /\ io_results' = Append(io_results, IF r.ok THEN "Ok" ELSE r.err)
        /\ IF r.ok
           THEN /\ saved_popup_info' = <<"Data successfully saved to ", "\"secrets.json\"",
                                         ". Press x to close.">>
                /\ saved_popup_result' = <<"Success">>
                /\ show_saved_popup' = TRUE
                /\ status' = status
           ELSE /\ UNCHANGED <<saved_popup_info, saved_popup_result, show_saved_popup>>
                /\ status' = "failed"
        /\ UNCHANGED <<input, character_index, input_mode, hash, secrets>>

\* App::handle_save
handle_save ==
    \E r \in save_data_to_json(secrets, file) :
        /\ file' = r.file
        /\ io_results' = Append(io_results, IF r.ok THEN "Ok" ELSE r.err)
        /\ IF r.ok
           THEN /\ saved_popup_info' = <<"Data successfully saved to ", "\"secrets.json\"",
                                         ". Press x to close.">>
                /\ saved_popup_result' = <<"Success">>
                /\ show_saved_popup' = TRUE
           ELSE /\ saved_popup_info' = <<"Error saving file: ", r.err, ". Press x to close">>
                /\ saved_popup_result' = <<"Failure">>
                /\ show_saved_popup' = TRUE
        /\ UNCHANGED <<input, character_index, input_mode, hash, secrets, status>>

\* InputMode::Normal, KeyCode::Char('e')
NormalEdit ==
    \E kind \in KeyEventKinds :
        /\ input_mode = "Normal"
        /\ Read(KeyEvent(Char(101), kind))
        /\ input_mode' = "Editing"
        /\ UNCHANGED <<input, character_index, hash, secrets, show_saved_popup,
                       saved_popup_info, saved_popup_result, file, io_results, status>>

\* InputMode::Normal, KeyCode::Char('q')
NormalQuit ==
    \E kind \in KeyEventKinds :
        /\ input_mode = "Normal"
        /\ Read(KeyEvent(Char(113), kind))
        /\ status' = "exited"
        /\ UNCHANGED <<app, file, io_results>>

\* InputMode::Normal, KeyCode::Char('s')
NormalSave ==
    \E kind \in KeyEventKinds :
        /\ input_mode = "Normal"
        /\ Read(KeyEvent(Char(115), kind))
        /\ handle_save

\* an x key that toggles the popup instead of hiding it
NormalDismissToggles ==
    \E kind \in KeyEventKinds :
        /\ input_mode = "Normal"
        /\ Read(KeyEvent(Char(120), kind))
        /\ show_saved_popup' = ~show_saved_popup
        /\ UNCHANGED <<input, character_index, input_mode, hash, secrets,
                       saved_popup_info, saved_popup_result, file, io_results, status>>

\* InputMode::Normal, KeyCode::Char('x')
NormalDismiss ==
    \E kind \in KeyEventKinds :
        /\ input_mode = "Normal"
        /\ Read(KeyEvent(Char(120), kind))
        /\ show_saved_popup' = FALSE
        /\ UNCHANGED <<input, character_index, input_mode, hash, secrets,
                       saved_popup_info, saved_popup_result, file, io_results, status>>

\* a Normal mode whose fall-through arm edits the text as Editing mode does
NormalOtherEdits ==
    \E code \in KeyCodes \ {Char(101), Char(113), Char(115), Char(120)},
       kind \in KeyEventKinds :
        /\ input_mode = "Normal"
        /\ Read(KeyEvent(code, kind))
        /\ LET r == IF code.k = "Char" THEN enter_char(input, character_index, code.c)
                    ELSE IF code.k = "Backspace" THEN delete_char(input, character_index)
                    ELSE [input |-> input, character_index |-> character_index]
           IN  /\ input' = r.input
               /\ character_index' = r.character_index
        /\ UNCHANGED <<input_mode, hash, secrets, show_saved_popup,
                       saved_popup_info, saved_popup_result, file, io_results, status>>

\* InputMode::Normal, the arm _ => {}
NormalOther ==
    \E code \in KeyCodes \ {Char(101), Char(113), Char(115), Char(120)},
       kind \in KeyEventKinds :
        /\ input_mode = "Normal"
        /\ Read(KeyEvent(code, kind))
        /\ UNCHANGED <<app, file, io_results, status>>

\* an Enter that submits only a buffer that is not empty
EditingEnterSkipsEmpty ==
    /\ input_mode = "Editing"
    /\ Read(KeyEvent(Key("Enter"), "Press"))
    /\ IF input = <<>>
       THEN UNCHANGED <<app, file, io_results, status>>
       ELSE \/ \E pepper \in Peppers : submit_input(pepper)
            \/ submit_input_panic

\* InputMode::Editing if key.kind == Press, KeyCode::Enter
EditingEnter ==
    /\ input_mode = "Editing"
    /\ Read(KeyEvent(Key("Enter"), "Press"))
    /\ \/ \E pepper \in Peppers : submit_input(pepper)
       \/ submit_input_panic

\* an Editing mode in which the x key still dismisses the popup
EditingCharDismisses ==
    \E to_insert \in KeyChars :
        /\ input_mode = "Editing"
        /\ Read(KeyEvent(Char(to_insert), "Press"))
        /\ IF to_insert = 120
           THEN /\ show_saved_popup' = FALSE
                /\ UNCHANGED <<input, character_index, status>>
           ELSE /\ LET r == enter_char(input, character_index, to_insert)
                   IN  /\ input' = r.input
                       /\ character_index' = r.character_index
                       /\ status' = IF r.panicked THEN "panicked" ELSE status
                /\ UNCHANGED show_saved_popup
        /\ UNCHANGED <<input_mode, hash, secrets,
                       saved_popup_info, saved_popup_result, file, io_results>>

\* InputMode::Editing if key.kind == Press, KeyCode::Char(to_insert)
EditingChar ==
    \E to_insert \in KeyChars :
        /\ input_mode = "Editing"
        /\ Read(KeyEvent(Char(to_insert), "Press"))
        /\ LET r == enter_char(input, character_index, to_insert)
           IN  /\ input' = r.input
               /\ character_index' = r.character_index
               /\ status' = IF r.panicked THEN "panicked" ELSE status
        /\ UNCHANGED <<input_mode, hash, secrets, show_saved_popup,
                       saved_popup_info, saved_popup_result, file, io_results>>

\* InputMode::Editing if key.kind == Press, KeyCode::Backspace
EditingBackspace ==
    /\ input_mode = "Editing"
    /\ Read(KeyEvent(Key("Backspace"), "Press"))
    /\ LET r == delete_char(input, character_index)
       IN  /\ input' = r.input
           /\ character_index' = r.character_index
    /\ UNCHANGED <<input_mode, hash, secrets, show_saved_popup,
                   saved_popup_info, saved_popup_result, file, io_results, status>>

\* InputMode::Editing if key.kind == Press, KeyCode::Left
EditingLeft ==
    /\ input_mode = "Editing"
    /\ Read(KeyEvent(Key("Left"), "Press"))
    /\ character_index' = move_cursor_left(input, character_index)
    /\ UNCHANGED <<input, input_mode, hash, secrets, show_saved_popup,
                   saved_popup_info, saved_popup_result, file, io_results, status>>

\* InputMode::Editing if key.kind == Press, KeyCode::Right
EditingRight ==
    /\ input_mode = "Editing"
    /\ Read(KeyEvent(Key("Right"), "Press"))
    /\ character_index' = move_cursor_right(input, character_index)
    /\ UNCHANGED <<input, input_mode, hash, secrets, show_saved_popup,
                   saved_popup_info, saved_popup_result, file, io_results, status>>

\* an Esc that also clears the buffer on leaving Editing mode
EditingEscClears ==
    /\ input_mode = "Editing"
    /\ Read(KeyEvent(Key("Esc"), "Press"))
    /\ input_mode' = "Normal"
    /\ input' = StringClear(input)
    /\ character_index' = reset_cursor
    /\ UNCHANGED <<hash, secrets, show_saved_popup,
                   saved_popup_info, saved_popup_result, file, io_results, status>>

\* InputMode::Editing if key.kind == Press, KeyCode::Esc
EditingEsc ==
    /\ input_mode = "Editing"
    /\ Read(KeyEvent(Key("Esc"), "Press"))
    /\ input_mode' = "Normal"
    /\ UNCHANGED <<input, character_index, hash, secrets, show_saved_popup,
                   saved_popup_info, saved_popup_result, file, io_results, status>>

\* InputMode::Editing if key.kind == Press, the arm _ => {}
EditingOther ==
    /\ input_mode = "Editing"
    /\ Read(KeyEvent(Key("Tab"), "Press"))
    /\ UNCHANGED <<app, file, io_results, status>>

\* an Editing arm that also serves the repeat of a held character key
EditingNotPressRepeats ==
    \E code \in KeyCodes, kind \in KeyEventKinds \ {"Press"} :
        /\ input_mode = "Editing"
        /\ Read(KeyEvent(code, kind))
        /\ IF kind = "Repeat" /\ code.k = "Char"
           THEN /\ input' = enter_char(input, character_index, code.c).input
                /\ character_index' = enter_char(input, character_index, code.c).character_index
                /\ UNCHANGED <<input_mode, hash, secrets, show_saved_popup,
                               saved_popup_info, saved_popup_result, file,
                               io_results, status>>
           ELSE UNCHANGED <<app, file, io_results, status>>

\* InputMode::Editing => {}: a key event that is not a press
EditingNotPress ==
    \E code \in KeyCodes, kind \in KeyEventKinds \ {"Press"} :
        /\ input_mode = "Editing"
        /\ Read(KeyEvent(code, kind))
        /\ UNCHANGED <<app, file, io_results, status>>

\* if let Event::Key(key) fails: a resize, mouse, focus or paste event
NotKeyEvent ==
    /\ Read([type |-> "other", code |-> Key("none"), kind |-> "Press", mode |-> input_mode])
    /\ UNCHANGED <<app, file, io_results, status>>

\* terminal.draw(..)? or event::read()? returns the error: run returns Err
RunError ==
    /\ Read([type |-> "error", code |-> Key("none"), kind |-> "Press", mode |-> input_mode])
    /\ status' = "failed"
    /\ UNCHANGED <<app, file, io_results>>

Next ==
    \/ NormalEdit
    \/ NormalQuit
    \/ NormalSave
    \/ NormalDismiss
    \/ NormalOther
    \/ EditingEnter
    \/ EditingChar
    \/ EditingBackspace
    \/ EditingLeft
    \/ EditingRight
    \/ EditingEsc
    \/ EditingOther
    \/ EditingNotPress
    \/ NotKeyEvent
    \/ RunError

Spec == Init /\ [][Next]_vars

(***************************************************************************)
(* Reading the session's state: what a record of the ledger holds, and     *)
(* which event a step handled.                                             *)
(***************************************************************************)

\* the value of each hex digit
HexValues ==
    [d \in {HexDigits[v] : v \in 1..16} |-> (CHOOSE v \in 1..16 : HexDigits[v] = d) - 1]

HexValue(ch) == HexValues[ch]

\* the bytes a string of hex digits stands for
HexDecode(str) ==
    [i \in 1..(Len(str) \div 2) |-> 16 * HexValue(str[2 * i - 1]) + HexValue(str[2 * i])]

CommaAt(str) == CHOOSE i \in 1..Len(str) : str[i] = ","

\* the pepper and the plaintext bytes recorded in one row of the ledger
RecordPepper(row) == HexDecode(SubSeq(row[1], 1, CommaAt(row[1]) - 1))
RecordPlaintext(row) == HexDecode(SubSeq(row[1], CommaAt(row[1]) + 1, Len(row[1])))

\* the digest of a byte sequence, as the history shows it
DigestHex(bytes) == [hex |-> [sha512 |-> bytes]]

IsPrefix(a, b) == Len(a) <= Len(b) /\ SubSeq(b, 1, Len(a)) = a

\* the step handles a key event with this code, read in this mode
Handles(mode, code) ==
    /\ input_mode = mode
    /\ last'.type = "key"
    /\ last'.code = code

\* the latest event was a key event with this code and kind, read in this mode
Handled(mode, code, kind) ==
    last = [type |-> "key", code |-> code, kind |-> kind, mode |-> mode]

HasMultiByte(s) == \E i \in 1..Len(s) : s[i] >= 128

(***************************************************************************)
(* Claims.                                                                 *)
(***************************************************************************)

\* C1: in every reachable state the cursor is between 0 and the number of
\* characters of the input, and the byte offset derived from it is the start
\* of a character or the end of the input, never inside a multi-byte character.
C1_CursorInBounds ==
    /\ 0 <= character_index
    /\ character_index <= Len(Chars(input))
    /\ byte_index(input, character_index) <= Len(input)
    /\ IsCharBoundary(input, byte_index(input, character_index))

\* the cursor stands between two characters of an input whose byte offsets
\* differ from its character indices, after a move to the left
C1_Witness ==
    /\ Handled("Editing", Key("Left"), "Press")
    /\ 0 < character_index
    /\ character_index < Len(Chars(input))
    /\ byte_index(input, character_index) # character_index

\* C2: the digest history and the ledger have the same length, and the digest
\* at each index is the hash of the pepper recorded at that index of the ledger
\* followed by the UTF-8 bytes of the plaintext recorded there.
C2_HistoryMatchesLedger ==
    /\ Len(hash) = Len(secrets)
    /\ \A i \in 1..Len(secrets) :
        /\ Len(secrets[i]) = 1
        /\ LET pepper == RecordPepper(secrets[i])
               plaintext == RecordPlaintext(secrets[i])
           IN  /\ Len(pepper) = PepperLen
               /\ hash[i] = DigestHex(pepper \o plaintext)

\* two submissions are recorded, the first of a text with a multi-byte character
C2_Witness ==
    /\ Len(secrets) = 2
    /\ Len(hash) = 2
    /\ HasMultiByte(RecordPlaintext(secrets[1]))

\* C3: history and ledger are append-only: over every step the old history and
\* ledger are prefixes of the new ones, and only a pressed Enter in Editing
\* mode lengthens them.
C3_AppendOnly ==
    [][/\ IsPrefix(hash, hash')
       /\ IsPrefix(secrets, secrets')
       /\ (hash' # hash \/ secrets' # secrets)
            => /\ Handles("Editing", Key("Enter"))
               /\ last'.kind = "Press"]_vars

\* a second, different record has been appended behind the first
C3_Witness ==
    /\ Len(secrets) = 2
    /\ secrets[1] # secrets[2]
    /\ hash[1] # hash[2]
    /\ Handled("Editing", Key("Enter"), "Press")

\* C4: a pressed Enter in Editing mode with input p (the random source
\* delivering) appends exactly one digest and exactly one record, whose
\* plaintext is p, leaves the input empty and the cursor at 0, and stays in
\* Editing mode.
C4_ConfirmAppendsAndClears ==
    [][(/\ Handles("Editing", Key("Enter"))
        /\ last'.kind = "Press"
        /\ status' = "running")
       => /\ Len(hash') = Len(hash) + 1
          /\ SubSeq(hash', 1, Len(hash)) = hash
          /\ Len(secrets') = Len(secrets) + 1
          /\ SubSeq(secrets', 1, Len(secrets)) = secrets
          /\ RecordPlaintext(secrets'[Len(secrets')]) = input
          /\ input' = <<>>
          /\ character_index' = 0
          /\ input_mode' = "Editing"]_vars

\* a text with a multi-byte character has just been confirmed
C4_Witness ==
    /\ Handled("Editing", Key("Enter"), "Press")
    /\ status = "running"
    /\ Len(secrets) = 1
    /\ HasMultiByte(RecordPlaintext(secrets[1]))
    /\ input = <<>>

\* C5: for the input and cursor of every reachable state and every character
\* c, inserting c and then deleting before the cursor gives back that input
\* and that cursor.
C5_DeleteUndoesInsert ==
    \A c \in KeyChars :
        LET r == enter_char(input, character_index, c)
        IN  /\ ~r.panicked
            /\ delete_char(r.input, r.character_index)
                 = [input |-> input, character_index |-> character_index]

\* a character has just been inserted between two others, one of them multi-byte
C5_Witness ==
    /\ \E c \in KeyChars : Handled("Editing", Char(c), "Press")
    /\ 1 < character_index
    /\ character_index < Len(Chars(input))
    /\ HasMultiByte(input)
    /\ delete_char(input, character_index).input # input

\* the four keys Normal mode acts on: e (edit), q (quit), s (save), x (dismiss)
CommandKeys == {Char(101), Char(113), Char(115), Char(120)}

\* the characters cs with c put in at index k
InsertAt(cs, k, c) == (SubSeq(cs, 1, k) \o <<c>>) \o SubSeq(cs, k + 1, Len(cs))

popup == <<show_saved_popup, saved_popup_info, saved_popup_result>>

\* C6: in Normal mode a key that is none of the four commands, of any kind,
\* leaves input, cursor, mode, history, ledger and popup unchanged (and writes
\* no file and does not end the session).
C6_NormalIgnoresOtherKeys ==
    [][\A code \in KeyCodes \ CommandKeys :
          Handles("Normal", code)
            => /\ UNCHANGED <<input, character_index, input_mode, hash, secrets>>
               /\ UNCHANGED popup
               /\ UNCHANGED <<file, io_results, status>>]_vars

\* a multi-byte character key was pressed in Normal mode while the input held
\* text and the popup was showing
C6_Witness ==
    /\ Handled("Normal", Char(8364), "Press")
    /\ input # <<>>
    /\ show_saved_popup
    /\ status = "running"

\* C7: no key event read in Editing mode writes the file, quits the session or
\* changes the popup; a pressed s, q, x or e is inserted as text at the cursor;
\* a pressed Escape returns to Normal mode.
C7_EditingIgnoresCommands ==
    [][(input_mode = "Editing" /\ last'.type = "key")
       => /\ UNCHANGED <<file, io_results>>
          /\ UNCHANGED popup
          /\ status' # "exited"
          /\ (last'.kind = "Press" /\ last'.code \in CommandKeys)
               => /\ Chars(input') = InsertAt(Chars(input), character_index, last'.code.c)
                  /\ character_index' = character_index + 1
                  /\ input_mode' = "Editing"
                  /\ status' = "running"
          /\ (last'.kind = "Press" /\ last'.code = Key("Esc"))
               => input_mode' = "Normal"]_vars

\* the s key was pressed in Editing mode while the popup was showing, and s is
\* now in the input
C7_Witness ==
    /\ Handled("Editing", Char(115), "Press")
    /\ show_saved_popup
    /\ \E i \in 1..Len(input) : input[i] = 115
    /\ Len(io_results) = 1

\* C8: the session starts in Normal mode with empty input, cursor 0, empty
\* history, empty ledger and hidden popup; the mode goes from Normal to Editing
\* exactly on the e key, from Editing to Normal exactly on a pressed Escape,
\* and the session ends by quit exactly on the q key read in Normal mode.
C8_ModeMachine ==
    /\ input_mode = "Normal" /\ input = <<>> /\ character_index = 0
    /\ hash = <<>> /\ secrets = <<>> /\ show_saved_popup = FALSE
    /\ [][/\ (input_mode = "Normal" /\ input_mode' = "Editing")
               <=> Handles("Normal", Char(101))
          /\ (input_mode = "Editing" /\ input_mode' = "Normal")
               <=> (Handles("Editing", Key("Esc")) /\ last'.kind = "Press")
          /\ (status' = "exited") <=> Handles("Normal", Char(113))]_vars

\* the session has ended on the q key, read in Normal mode with text typed
C8_Witness ==
    /\ status = "exited"
    /\ input_mode = "Normal"
    /\ \E kind \in KeyEventKinds : Handled("Normal", Char(113), kind)
    /\ input # <<>>

\* C9: a save attempt, successful or not, leaves ledger, history, input,
\* cursor and mode (Normal) unchanged, and the session running.
C9_SaveChangesOnlyPopup ==
    [][Handles("Normal", Char(115))
       => /\ UNCHANGED <<secrets, hash, input, character_index, input_mode>>
          /\ input_mode' = "Normal"
          /\ status' = "running"
          /\ Len(io_results') = Len(io_results) + 1]_vars

\* a save has just succeeded with a record of multi-byte text in the ledger
C9_Witness ==
    /\ \E kind \in KeyEventKinds : Handled("Normal", Char(115), kind)
    /\ Len(secrets) = 1
    /\ HasMultiByte(RecordPlaintext(secrets[1]))
    /\ io_results = <<"Ok">>
    /\ file = FileWith(ToStringPretty(secrets))

Last(seq) == seq[Len(seq)]

\* a successful save is possible at the next event
CanSaveSuccessfully == ENABLED (NormalSave /\ Last(io_results') = "Ok")

\* C10: a failed export shows the popup with outcome Failure and leaves the
\* session running in Normal mode with the ledger unchanged; the file is written
\* only by a save key, once per key (no retry); after a failure a further save
\* can succeed, and a save that succeeds writes the full ledger.
C10_SaveFailureRecoverable ==
    [][/\ (Handles("Normal", Char(115)) /\ Last(io_results') # "Ok")
            => /\ show_saved_popup'
               /\ saved_popup_result' = <<"Failure">>
               /\ status' = "running"
               /\ input_mode' = "Normal"
               /\ secrets' = secrets
       /\ (io_results' # io_results \/ file' # file)
            => /\ Handles("Normal", Char(115))
               /\ Len(io_results') = Len(io_results) + 1
       /\ (Handles("Normal", Char(115)) /\ Last(io_results') = "Ok")
            => file' = FileWith(ToStringPretty(secrets))
       /\ (status' = "running" /\ input_mode' = "Normal" /\ nkeys' < MaxKeys
           /\ io_results' # <<>> /\ Last(io_results') # "Ok")
            => CanSaveSuccessfully']_vars

\* a save failed, leaving the file cut short, and the next save succeeded and
\* wrote the whole ledger
C10_Witness ==
    /\ io_results = <<"StorageFull", "Ok">>
    /\ secrets # <<>>
    /\ file = FileWith(ToStringPretty(secrets))
    /\ saved_popup_result = <<"Success">>
    /\ status = "running"

\* the outcome and the message handle_save shows for a result of the write
PopupResultFor(res) == IF res = "Ok" THEN <<"Success">> ELSE <<"Failure">>
PopupInfoFor(res) ==
    IF res = "Ok"
    THEN <<"Data successfully saved to ", "\"secrets.json\"", ". Press x to close.">>
    ELSE <<"Error saving file: ", res, ". Press x to close">>

\* C11: every save attempt makes the popup visible and sets its outcome and
\* message to those of that attempt (Success exactly when the write returned
\* Ok); whenever the popup is visible its outcome is that of the latest save
\* attempt; it is hidden only by the x key read in Normal mode and shown only
\* by a save attempt.
C11_PopupTracksLatestSave ==
    [][/\ Handles("Normal", Char(115))
            => /\ show_saved_popup'
               /\ Len(io_results') = Len(io_results) + 1
               /\ saved_popup_result' = PopupResultFor(Last(io_results'))
               /\ saved_popup_info' = PopupInfoFor(Last(io_results'))
       /\ show_saved_popup'
            => /\ io_results' # <<>>
               /\ saved_popup_result' = PopupResultFor(Last(io_results'))
               /\ saved_popup_info' = PopupInfoFor(Last(io_results'))
       /\ (show_saved_popup /\ ~show_saved_popup') => Handles("Normal", Char(120))
       /\ (~show_saved_popup /\ show_saved_popup') => Handles("Normal", Char(115))]_vars

\* a save that failed has overwritten the popup of an earlier save that succeeded
C11_Witness ==
    /\ io_results = <<"Ok", "PermissionDenied">>
    /\ show_saved_popup
    /\ saved_popup_result = <<"Failure">>
    /\ \E kind \in KeyEventKinds : Handled("Normal", Char(115), kind)

JsonWhitespace == {" ", "\n"}

\* the characters of a text with their positions
Positions(text) == [i \in 1..Len(text) |-> [ch |-> text[i], i |-> i]]

IsQuote(p) == p.ch = "\""

\* the quotes of a text whose strings need no escape: they open and close
\* its strings in turn
Quotes(text) == SelectSeq(Positions(text), IsQuote)

\* the k-th string of a text
JsonStringAt(text, k) ==
    SubSeq(text, Quotes(text)[2 * k - 1].i + 1, Quotes(text)[2 * k].i - 1)

\* the tokens of a JSON text: what stands outside its strings and is not
\* whitespace, a string being the one token of its opening quote
JsonTokens(text) ==
    LET quotes == Quotes(text)
        before == [i \in 1..Len(text) |->
                      Cardinality({q \in DOMAIN quotes : quotes[q].i < i})]
        IsToken(p) == before[p.i] % 2 = 0 /\ p.ch \notin JsonWhitespace
        kept == SelectSeq(Positions(text), IsToken)
    IN  [j \in DOMAIN kept |-> kept[j].ch]

\* a reader of the tokens of an array of arrays of strings: it scans from
\* token j at nesting depth d (0 before the document, 1 in the outer array,
\* 2 in a row, 3 after the document), k strings read so far, `after` telling
\* what came last at this depth; it returns the rows, or ok = FALSE for
\* tokens that are not one complete document
RECURSIVE JsonScan(_, _, _, _, _, _, _, _)
JsonScan(text, toks, j, d, after, k, row, rows) ==
    IF j > Len(toks)
    THEN [ok |-> d = 3, rows |-> rows]
    ELSE LET t == toks[j]
         IN  IF t = "[" /\ d = 0
             THEN JsonScan(text, toks, j + 1, 1, "open", k, row, rows)
             ELSE IF t = "[" /\ d = 1 /\ after # "value"
             THEN JsonScan(text, toks, j + 1, 2, "open", k, <<>>, rows)
             ELSE IF t = "\"" /\ d = 2 /\ after # "value"
             THEN JsonScan(text, toks, j + 1, 2, "value", k + 1,
                           Append(row, JsonStringAt(text, k + 1)), rows)
             ELSE IF t = "," /\ d \in {1, 2} /\ after = "value"
             THEN JsonScan(text, toks, j + 1, d, "comma", k, row, rows)
             ELSE IF t = "]" /\ d = 2 /\ after # "comma"
             THEN JsonScan(text, toks, j + 1, 1, "value", k, <<>>, Append(rows, row))
             ELSE IF t = "]" /\ d = 1 /\ after # "comma"
             THEN JsonScan(text, toks, j + 1, 3, "value", k, row, rows)
             ELSE [ok |-> FALSE, rows |-> rows]

\* the record sequence a file holds, when its text is a JSON document
FileRecords(f) ==
    IF Len(Quotes(f.text)) % 2 # 0
    THEN [ok |-> FALSE, rows |-> <<>>]
    ELSE JsonScan(f.text, JsonTokens(f.text), 1, 0, "open", 0, <<>>, <<>>)

\* C12: a save that succeeds writes the whole current ledger in place of
\* whatever the file held: right after it the file's record sequence equals
\* the ledger in length, order and content.
C12_SuccessfulSaveWritesLedger ==
    ((\E kind \in KeyEventKinds : Handled("Normal", Char(115), kind))
        /\ io_results # <<>> /\ Last(io_results) = "Ok")
    => LET records == FileRecords(file)
       IN  /\ file.exists
           /\ records.ok
           /\ Len(records.rows) = Len(secrets)
           /\ \A i \in 1..Len(secrets) : records.rows[i] = secrets[i]

\* a second successful save has replaced the empty document of the first by
\* a ledger of one record
C12_Witness ==
    /\ \E kind \in KeyEventKinds : Handled("Normal", Char(115), kind)
    /\ io_results = <<"Ok", "Ok">>
    /\ Len(secrets) = 1
    /\ FileRecords(file) = [ok |-> TRUE, rows |-> secrets]

\* C13: when the random source fails during a confirm, the submission stops
\* before any state change: no digest joins the history, no record joins the
\* ledger, buffer and cursor are not cleared (history and ledger keep equal
\* lengths), and nothing else of the session or the file changes; the session
\* ends this way on no other step.
C13_EntropyFailureChangesNothing ==
    [][/\ (Handles("Editing", Key("Enter")) /\ last'.kind = "Press" /\ status' = "panicked")
            => /\ hash' = hash
               /\ secrets' = secrets
               /\ Len(hash') = Len(secrets')
               /\ input' = input
               /\ character_index' = character_index
               /\ UNCHANGED <<app, file, io_results>>
       /\ (status # "panicked" /\ status' = "panicked")
            => (Handles("Editing", Key("Enter")) /\ last'.kind = "Press")]_vars

\* the random source failed on a confirm of a typed multi-byte buffer, after
\* an earlier confirm had succeeded
C13_Witness ==
    /\ status = "panicked"
    /\ Handled("Editing", Key("Enter"), "Press")
    /\ HasMultiByte(input)
    /\ character_index = 1
    /\ Len(secrets) = 1
    /\ Len(hash) = 1

\* C14: in Editing mode a key event whose kind is not Press (a release or a
\* repeat) changes no state; in Normal mode a command key takes effect
\* whatever the kind of its event: e enters Editing, q ends the session,
\* x hides the popup and s makes one save attempt and shows the popup.
C14_KindMattersOnlyInEditing ==
    [][/\ (input_mode = "Editing" /\ last'.type = "key" /\ last'.kind # "Press")
            => UNCHANGED <<app, file, io_results, status>>
       /\ \A kind \in KeyEventKinds :
            /\ (Handles("Normal", Char(101)) /\ last'.kind = kind)
                 => input_mode' = "Editing"
            /\ (Handles("Normal", Char(113)) /\ last'.kind = kind)
                 => status' = "exited"
            /\ (Handles("Normal", Char(120)) /\ last'.kind = kind)
                 => ~show_saved_popup'
            /\ (Handles("Normal", Char(115)) /\ last'.kind = kind)
                 => /\ show_saved_popup'
                    /\ Len(io_results') = Len(io_results) + 1]_vars

\* a released x key has hidden the popup that an earlier save had shown
C14_Witness ==
    /\ Handled("Normal", Char(120), "Release")
    /\ ~show_saved_popup
    /\ saved_popup_result # <<>>
    /\ input = <<>>
    /\ hash = <<>>

\* the step is a confirm that records this pepper
ConfirmsWith(pepper) ==
    /\ EditingEnter
    /\ secrets' = VecPush(secrets, <<combined_pepper_input(input, pepper)>>)

\* C15 as stated: any two submissions of a session record different peppers
\* and different digests.
C15_PeppersNeverRepeat ==
    \A i, j \in 1..Len(secrets) :
        i < j => /\ RecordPepper(secrets[i]) # RecordPepper(secrets[j])
                 /\ hash[i] # hash[j]

\* C15, amended: every submission draws its pepper anew from the random
\* source, whatever was drawn before: at every confirm each value the source
\* can deliver can be the one recorded, also a value already recorded. The
\* record holds a whole pepper of PepperLen bytes; against every earlier
\* submission whose pepper differs the digest differs, even for identical
\* plaintext, and against one whose pepper coincides the digest differs
\* exactly when the plaintext differs.
C15_FreshPepperPerSubmission ==
    [][(Handles("Editing", Key("Enter")) /\ last'.kind = "Press" /\ status' = "running")
       => LET pn == RecordPepper(Last(secrets'))
              tn == RecordPlaintext(Last(secrets'))
          IN  /\ \A pepper \in Peppers : ENABLED ConfirmsWith(pepper)
              /\ Len(pn) = PepperLen
              /\ pn \in Peppers
              /\ \A i \in 1..Len(secrets) :
                   LET pi == RecordPepper(secrets[i])
                       ti == RecordPlaintext(secrets[i])
                   IN  /\ pi # pn => hash[i] # Last(hash')
                       /\ pi = pn => (hash[i] # Last(hash') <=> ti # tn)]_vars

\* the same multi-byte plaintext submitted twice with two peppers: two
\* different digests
C15_Witness ==
    /\ Len(secrets) = 2
    /\ Len(hash) = 2
    /\ RecordPlaintext(secrets[1]) = RecordPlaintext(secrets[2])
    /\ HasMultiByte(RecordPlaintext(secrets[1]))
    /\ RecordPepper(secrets[1]) # RecordPepper(secrets[2])
    /\ hash[1] # hash[2]

\* C16: a pressed character key c read in Editing mode with the cursor at
\* character index k of a buffer of n characters (0 <= k <= n) gives the
\* buffer of the first k characters, then c, then the other n - k characters,
\* encoded as UTF-8, with the cursor at k + 1, and raises no error; so it is
\* for multi-byte characters in the buffer and for a multi-byte c.
C16_InsertAtCursor ==
    [][\A c \in KeyChars :
          (Handles("Editing", Char(c)) /\ last'.kind = "Press")
          => LET cs == Chars(input)
                 k == character_index
                 n == Len(cs)
             IN  /\ 0 <= k /\ k <= n
                 /\ status' = "running"
                 /\ Len(Chars(input')) = n + 1
                 /\ SubSeq(Chars(input'), 1, k) = SubSeq(cs, 1, k)
                 /\ Chars(input')[k + 1] = c
                 /\ SubSeq(Chars(input'), k + 2, n + 1) = SubSeq(cs, k + 1, n)
                 /\ input' = Collect(InsertAt(cs, k, c))
                 /\ character_index' = k + 1]_vars

\* a multi-byte character has just been inserted between a multi-byte
\* character and a single-byte one
C16_Witness ==
    /\ Handled("Editing", Char(8364), "Press")
    /\ Chars(input) = <<8364, 8364, 115>>
    /\ character_index = 2
    /\ Len(input) = 7

\* the characters cs without the one at index k - 1 (counted from 0)
RemoveBefore(cs, k) == SubSeq(cs, 1, k - 1) \o SubSeq(cs, k + 1, Len(cs))

PressedInEditing(code) == Handles("Editing", code) /\ last'.kind = "Press"

\* C17: Backspace with the cursor at 0 changes nothing; with the cursor at
\* k > 0 it removes exactly the character at index k - 1, keeps the others in
\* order and moves the cursor to k - 1. Move-left at cursor 0 and move-right
\* at the end of the buffer change nothing (elsewhere they move the cursor by
\* one and keep the buffer), and none of these requests raises an error.
C17_BoundaryEditsAreNoOps ==
    [][LET cs == Chars(input)
           k == character_index
       IN  /\ PressedInEditing(Key("Backspace"))
                => /\ status' = "running"
                   /\ k = 0 => UNCHANGED <<app, file, io_results>>
                   /\ k > 0 => /\ Chars(input') = RemoveBefore(cs, k)
                               /\ Len(Chars(input')) = Len(cs) - 1
                               /\ input' = Collect(RemoveBefore(cs, k))
                               /\ character_index' = k - 1
           /\ PressedInEditing(Key("Left"))
                => /\ status' = "running"
                   /\ input' = input
                   /\ k = 0 => UNCHANGED <<app, file, io_results>>
                   /\ k > 0 => character_index' = k - 1
           /\ PressedInEditing(Key("Right"))
                => /\ status' = "running"
                   /\ input' = input
                   /\ k = Len(cs) => UNCHANGED <<app, file, io_results>>
                   /\ k < Len(cs) => character_index' = k + 1]_vars

\* Backspace has just been pressed with a buffer that now holds one
\* multi-byte character and the cursor at 0, after four other keys
C17_Witness ==
    /\ Handled("Editing", Key("Backspace"), "Press")
    /\ nkeys = 5
    /\ input = EncodeUtf8(8364)
    /\ character_index = 0
    /\ status = "running"

\* C18: switching modes never touches the text: the e key read in Normal mode
\* and a pressed Esc read in Editing mode switch the mode and leave buffer
\* and cursor as they are; buffer and cursor change on no key read in Normal
\* mode at all, so text typed before Esc is there with the same cursor when
\* Editing is entered again. A buffer that is not empty becomes empty with
\* cursor 0 only by a confirm (or by Backspace removing its only character).
C18_ModeSwitchKeepsText ==
    [][/\ Handles("Normal", Char(101))
            => /\ input_mode' = "Editing"
               /\ UNCHANGED <<input, character_index>>
       /\ PressedInEditing(Key("Esc"))
            => /\ input_mode' = "Normal"
               /\ UNCHANGED <<input, character_index>>
       /\ input_mode = "Normal" => UNCHANGED <<input, character_index>>
       /\ (input # <<>> /\ input' = <<>>)
            => /\ character_index' = 0
               /\ \/ /\ PressedInEditing(Key("Enter"))
                     /\ Len(secrets') = Len(secrets) + 1
                  \/ /\ PressedInEditing(Key("Backspace"))
                     /\ Len(Chars(input)) = 1
                     /\ character_index = 1]_vars

\* Editing has been entered again after an Esc, and the multi-byte character
\* typed before the Esc is still in the buffer with the cursor behind it
C18_Witness ==
    /\ \E kind \in KeyEventKinds : Handled("Normal", Char(101), kind)
    /\ input_mode = "Editing"
    /\ nkeys = 4
    /\ input = EncodeUtf8(8364)
    /\ character_index = 1
    /\ secrets = <<>>

\* C19: a confirm is not guarded by the content of the buffer: a pressed
\* Enter read in Editing mode with an empty buffer, the random source
\* delivering, appends one digest to the history and one record to the
\* ledger, the record holding a pepper of PepperLen bytes and an empty
\* plaintext and the digest being that of the pepper alone. Every confirm
\* processed adds exactly one entry and nothing else adds any, so the ledger
\* counts the confirms, not the submissions that were not empty.
C19_EmptyBufferIsSubmitted ==
    [][/\ (PressedInEditing(Key("Enter")) /\ input = <<>> /\ status' = "running")
            => /\ Len(hash') = Len(hash) + 1
               /\ Len(secrets') = Len(secrets) + 1
               /\ RecordPlaintext(Last(secrets')) = <<>>
               /\ Len(RecordPepper(Last(secrets'))) = PepperLen
               /\ Last(hash') = DigestHex(RecordPepper(Last(secrets')))
       /\ (PressedInEditing(Key("Enter")) /\ status' = "running")
            => Len(secrets') = Len(secrets) + 1
       /\ Len(secrets') # Len(secrets)
            => /\ PressedInEditing(Key("Enter"))
               /\ Len(secrets') = Len(secrets) + 1]_vars

\* two confirms of an empty buffer have left two records of empty plaintext
C19_Witness ==
    /\ Handled("Editing", Key("Enter"), "Press")
    /\ status = "running"
    /\ Len(secrets) = 2
    /\ Len(hash) = 2
    /\ RecordPlaintext(secrets[1]) = <<>>
    /\ RecordPlaintext(secrets[2]) = <<>>

\* C20: in every state reached after a successful save with no failed save
\* since, the record sequence in the file is a prefix of the ledger: the save
\* left the file equal to the ledger of that moment, every step that is not a
\* save attempt leaves the file as it is, and so a submission made afterwards
\* is in the ledger and not in the file until the next successful save.
C20_FileIsPrefixOfLedger ==
    [][/\ ~Handles("Normal", Char(115)) => UNCHANGED <<file, io_results>>
       /\ (io_results' # <<>> /\ Last(io_results') = "Ok")
            => LET records == FileRecords(file')
               IN  /\ file'.exists
                   /\ records.ok
                   /\ IsPrefix(records.rows, secrets')
                   /\ Handles("Normal", Char(115)) => records.rows = secrets'
                   /\ (Len(secrets') > Len(secrets) /\ io_results # <<>>)
                        => /\ records.rows = FileRecords(file).rows
                           /\ Len(records.rows) < Len(secrets')]_vars

\* a submission made after a successful save of the empty ledger is in the
\* ledger and not in the file
C20_Witness ==
    /\ Handled("Editing", Key("Enter"), "Press")
    /\ io_results = <<"Ok">>
    /\ Len(secrets) = 1
    /\ FileRecords(file) = [ok |-> TRUE, rows |-> <<>>]

====
